---- MODULE Spec2Model ----
(***************************************************************************)
(* FarmLedger: the customer ledger kept in the Dexie store (customers,     *)
(* transactions, settings) and the handlers that write it: the daily sheet *)
(* (DailyRecord.handleSave), the ad hoc entry forms (AddSupply, AddPayment)*)
(* and the customer form (Customers.handleSubmit).                         *)
(*                                                                         *)
(* A calendar date is modelled by its day number; amounts are integers.    *)
(***************************************************************************)
EXTENDS Integers, Sequences, FiniteSets, TLC

VARIABLES
    customers,      \* db.customers: id -> Customer record
    transactions,   \* db.transactions: set of Transaction records
    nextCustId,     \* auto-increment key of db.customers  ('++id')
    nextTxId,       \* auto-increment key of db.transactions ('++id')
    farmRate,       \* db.settings 'global'.farmRate
    last,           \* what the last handler did (its inputs and how it ended)
    nOps,           \* number of handlers run so far
    proposed,       \* the sheet as it stood at the last save, where followed
    view            \* the DailyRecord component, where it is followed step
                    \* by step

vars == <<customers, transactions, nextCustId, nextTxId, farmRate, last, nOps,
          proposed, view>>

----------------------------------------------------------------------------
(* Bounds of the model                                                     *)

MaxOps == 3         \* handlers run in one behaviour of Spec
MaxSteps == 4       \* handlers run in one behaviour of SpecLedger
MaxTx == 3          \* transaction records ever inserted

(* Program constants                                                       *)

DefaultFarmRate == 150      \* initSettings
DefaultSupplyRate == 10     \* Customers.handleOpenAdd

(* Input domains                                                           *)

Days == {1, 2}                              \* calendar days of the date pickers
CreationDays == {2}                         \* the day a customer is created
CustomerIds == {1, 2}                       \* at most two customers are created
FarmRates == {DefaultFarmRate, DefaultFarmRate + 10}
OpeningBalances == {0, 500}
QtyInputs == {"", "1", "2", "-1"}           \* text of the Volume field
PayInputs == {"", "600", "-1"}              \* text of the Received field
AdHocQuantities == {1, 2}
AdHocAmounts == {600}

SUPPLY == "SUPPLY"
PAYMENT == "PAYMENT"

CASH == "Cash"                              \* PaymentMethod.CASH
CHEQUE == "Cheque"                          \* PaymentMethod.CHEQUE

NoTx == [id |-> 0]                          \* Array.find returning undefined

\* last: the handler that ran last, the customer and day it was about, the
\* number it was given (value; the sheet's farm rate for a save), the
\* customers whose sheet row held the
\* stored values (same) or a negative value (negative), the customer at
\* which a store write failed (failAt, 0 for none), how it ended and the
\* customers whose replay it ran
NoOp == [op |-> "none", cust |-> 0, day |-> 0, value |-> 0,
         same |-> {}, negative |-> {}, failAt |-> 0,
         result |-> "none", replayed |-> {}]

\* proposed: the rows of the sheet at the last save, its rate field,
\* when the save ended in the catch branch the store it started from, and
\* whether the save was a completed second press of Save on the sheet that
\* had just ended in the catch branch; NoSheet where no sheet is followed
NoSheet == [rows |-> <<>>, rate |-> 0,
            from |-> [tx |-> {}, cu |-> <<>>, nid |-> 0],
            retried |-> FALSE]

\* view: the state of the DailyRecord component: the selected date, the
\* input row of customer 1, the fetchCounter ref, the fetches in flight
\* (each with its currentFetchId and the date it was started for), the
\* fetching, loading and completed flags, and the running handleSave (the
\* await it stands at and the date and inputs of the render it was started
\* from).  Followed alongside: the date each input field's text was loaded
\* for or typed against (0 for the blank fields of the mount), whether a
\* field was typed into since the inputs were last loaded, and the last
\* thing the component did.  NoView where the component is not followed.
NoView == [date |-> 0, inputs |-> [qty |-> "", pay |-> ""],
           fetchCounter |-> 0, fetches |-> {},
           fetching |-> FALSE, loading |-> FALSE, completed |-> FALSE,
           save |-> [pc |-> "idle", date |-> 0,
                     inputs |-> [qty |-> "", pay |-> ""]],
           qtyDay |-> 0, payDay |-> 0, typed |-> FALSE, event |-> "none"]

----------------------------------------------------------------------------
(* Helpers                                                                 *)

\* parseFloat(s) || 0 of an input field's text
parseFloatOrZero(s) ==
    CASE s = ""    -> 0
      [] s = "-1"  -> 0 - 1
      [] s = "1"   -> 1
      [] s = "2"   -> 2
      [] s = "8"   -> 8
      [] s = "10"  -> 10
      [] s = "100" -> 100
      [] s = "600" -> 600
      [] OTHER     -> 0

\* getStartOfDay(date): the calendar day of a date-picker value
getStartOfDay(d) == d

\* new Date(formData.date) of the ad hoc forms: the same calendar day
dateObj(d) == d

\* the record of S with the lowest primary key, as the first hit of
\* toArray().find(...) over an index range; NoTx when there is none
FirstById(S) ==
    IF S = {} THEN NoTx
    ELSE CHOOSE t \in S : \A u \in S : t.id <= u.id

\* db.transactions.where('customerId').equals(c).toArray()
TxOf(tx, c) == {t \in tx : t.customerId = c}

\* db.transactions.where('date').between(start, end).toArray()
TxOnDay(tx, d) == {t \in tx : t.date = d}

\* a comparator that keeps the insertion order
compareTxInsertionOrder(a, b) == a.id - b.id

\* a comparator that orders by date alone and leaves same-day records in
\* insertion order, as a sortBy('date') does
compareTxDateOnly(a, b) ==
    IF a.date - b.date # 0 THEN a.date - b.date ELSE a.id - b.id

\* a comparator that puts the newest of two same-day records of a kind first
compareTxNewestFirst(a, b) ==
    IF a.date - b.date # 0 THEN a.date - b.date
    ELSE IF a.type # b.type THEN (IF a.type = SUPPLY THEN 0 - 1 ELSE 1)
    ELSE b.id - a.id

\* the comparator of allCustomerTrans.sort: negative when a sorts before b
compareTx(a, b) ==
    IF a.date - b.date # 0 THEN a.date - b.date
    ELSE IF a.type # b.type THEN (IF a.type = SUPPLY THEN 0 - 1 ELSE 1)
    ELSE a.id - b.id

\* Array.prototype.sort with that comparator
RECURSIVE sortTx(_)
sortTx(S) ==
    IF S = {} THEN <<>>
    ELSE LET m == CHOOSE x \in S : \A y \in S \ {x} : compareTx(x, y) < 0
         IN  <<m>> \o sortTx(S \ {m})

\* the arrays toArray() can resolve to when nothing is assumed about the
\* order in which the store returns the records
RECURSIVE toArrayOrders(_)
toArrayOrders(S) ==
    IF S = {} THEN {<<>>}
    ELSE UNION {{<<t>> \o a : a \in toArrayOrders(S \ {t})} : t \in S}

\* t put into the sorted array out, after every element that does not sort
\* after it
RECURSIVE sortedInsert(_, _, _)
sortedInsert(out, t, i) ==
    IF i > Len(out) THEN Append(out, t)
    ELSE IF compareTx(t, out[i]) < 0
         THEN SubSeq(out, 1, i - 1) \o <<t>> \o SubSeq(out, i, Len(out))
         ELSE sortedInsert(out, t, i + 1)

\* Array.prototype.sort run over an array as the store returned it: a
\* stable sort by the comparator
RECURSIVE arraySort(_, _, _)
arraySort(a, i, out) ==
    IF i > Len(a) THEN out
    ELSE arraySort(a, i + 1, sortedInsert(out, a[i], 1))

\* the forward pass over the sorted records: acc carries the running
\* balance, the totals, the last supply date and the rewritten records
RECURSIVE forwardPass(_, _, _)
forwardPass(seq, i, acc) ==
    IF i > Len(seq) THEN acc
    ELSE LET t == seq[i]
             bal == IF t.type = SUPPLY THEN acc.bal + t.amount
                    ELSE acc.bal - t.amount
         IN  forwardPass(seq, i + 1,
                [bal  |-> bal,
                 sup  |-> IF t.type = SUPPLY THEN acc.sup + t.quantity ELSE acc.sup,
                 paid |-> IF t.type = SUPPLY THEN acc.paid ELSE acc.paid + t.amount,
                 lsd  |-> IF t.type = SUPPLY THEN t.date ELSE acc.lsd,
                 out  |-> acc.out \cup {[t EXCEPT !.balanceAfter = bal]}])

\* JSON.parse(JSON.stringify(date)): a backup file holds a date as its ISO
\* string and the import stores that string.  A string key sorts after
\* every Date key of an index, so the string of day d is modelled as d + 10,
\* which no day range of a date picker contains.
jsonDate(d) == d + 10

\* the stored date is a string, not a Date
isJsonDate(d) == d > 10

\* a.date.getTime() - b.date.getTime() of the sort comparator throws a
\* TypeError on a string; the comparator runs once there are two records
sortThrows(S) ==
    Cardinality(S) >= 2 /\ \E t \in S : isJsonDate(t.date)

\* the ids of S in ascending order, as db.customers.toArray() lists them
RECURSIVE idSeq(_)
idSeq(S) ==
    IF S = {} THEN <<>>
    ELSE LET m == CHOOSE x \in S : \A y \in S : x <= y
         IN  <<m>> \o idSeq(S \ {m})

----------------------------------------------------------------------------
(* What a sheet row proposes, told from the stored records alone          *)

\* the stored quantity of the customer's supply of the day, 0 without one
StoredQty(c, d) ==
    LET S == {t \in transactions :
                 t.customerId = c /\ t.date = d /\ t.type = SUPPLY}
    IN  IF S = {} THEN 0 ELSE FirstById(S).quantity

\* the stored amount of the customer's payment of the day, 0 without one
StoredPay(c, d) ==
    LET S == {t \in transactions :
                 t.customerId = c /\ t.date = d /\ t.type = PAYMENT}
    IN  IF S = {} THEN 0 ELSE FirstById(S).amount

\* the row proposes what is stored: the quantity and the payment both
SameAsStored(c, d, entry) ==
    /\ parseFloatOrZero(entry.qty) = StoredQty(c, d)
    /\ parseFloatOrZero(entry.pay) = StoredPay(c, d)

\* the row proposes a negative quantity or a negative payment
NegativeInput(entry) ==
    \/ parseFloatOrZero(entry.qty) < 0
    \/ parseFloatOrZero(entry.pay) < 0

----------------------------------------------------------------------------
(* DailyRecord.handleSave                                                  *)
(* A store state st is [tx, cu, nid]: the two tables and the next          *)
(* transaction key, as seen inside the Dexie transaction.                  *)

\* oldSupply / oldPayment: the first record of the day with the customer
\* and the type
oldRecord(st, cid, d, type) ==
    FirstById({t \in TxOnDay(st.tx, d) : t.customerId = cid /\ t.type = type})

\* oldSupply?.quantity || 0
oldQtyOf(st, cid, d) ==
    LET o == oldRecord(st, cid, d, SUPPLY)
    IN  IF o = NoTx THEN 0 ELSE o.quantity

\* oldPayment?.amount || 0
oldPayOf(st, cid, d) ==
    LET o == oldRecord(st, cid, d, PAYMENT)
    IN  IF o = NoTx THEN 0 ELSE o.amount

\* a skip check that passes only rows that are blank over an empty day
skipOnlyBlankRows(st, cid, d, entry) ==
    /\ parseFloatOrZero(entry.qty) = 0
    /\ parseFloatOrZero(entry.pay) = 0
    /\ oldRecord(st, cid, d, SUPPLY) = NoTx
    /\ oldRecord(st, cid, d, PAYMENT) = NoTx

\* the skip check: nothing changed for this customer on this day
skipCheck(st, cid, d, entry) ==
    LET newQty == parseFloatOrZero(entry.qty)
        newPay == parseFloatOrZero(entry.pay)
    IN  /\ newQty = oldQtyOf(st, cid, d)
        /\ newPay = oldPayOf(st, cid, d)
        /\ \/ oldRecord(st, cid, d, SUPPLY) # NoTx
           \/ oldRecord(st, cid, d, PAYMENT) # NoTx
           \/ (newQty = 0 /\ newPay = 0)

\* a supply branch whose update stores the new quantity and leaves the
\* record's rate and amount
reconcileSupplyQuantityOnly(st, cid, d, dailyRate, newQty) ==
    LET oldSupply == oldRecord(st, cid, d, SUPPLY)
    IN  IF newQty > 0
        THEN IF oldSupply # NoTx
             THEN [st EXCEPT !.tx = (st.tx \ {oldSupply}) \cup
                        {[oldSupply EXCEPT !.quantity = newQty]}]
             ELSE [st EXCEPT !.tx = st.tx \cup
                        {[id |-> st.nid, customerId |-> cid, date |-> d,
                          type |-> SUPPLY, quantity |-> newQty,
                          rate |-> dailyRate, amount |-> newQty * dailyRate,
                          balanceAfter |-> 0]},
                             !.nid = st.nid + 1]
        ELSE IF oldSupply # NoTx
             THEN [st EXCEPT !.tx = st.tx \ {oldSupply}]
             ELSE st

\* a supply branch that replaces the day's record by a fresh one
reconcileSupplyReinsert(st, cid, d, dailyRate, newQty) ==
    LET oldSupply == oldRecord(st, cid, d, SUPPLY)
        rest == IF oldSupply # NoTx THEN st.tx \ {oldSupply} ELSE st.tx
    IN  IF newQty > 0
        THEN [st EXCEPT !.tx = rest \cup
                        {[id |-> st.nid, customerId |-> cid, date |-> d,
                          type |-> SUPPLY, quantity |-> newQty,
                          rate |-> dailyRate, amount |-> newQty * dailyRate,
                          balanceAfter |-> 0]},
                        !.nid = st.nid + 1]
        ELSE [st EXCEPT !.tx = rest]

\* the supply branch: update in place, insert with balanceAfter 0, or delete
reconcileSupply(st, cid, d, dailyRate, newQty) ==
    LET oldSupply == oldRecord(st, cid, d, SUPPLY)
    IN  IF newQty > 0
        THEN IF oldSupply # NoTx
             THEN [st EXCEPT !.tx = (st.tx \ {oldSupply}) \cup
                        {[oldSupply EXCEPT !.quantity = newQty,
                                           !.rate = dailyRate,
                                           !.amount = newQty * dailyRate]}]
             ELSE [st EXCEPT !.tx = st.tx \cup
                        {[id |-> st.nid, customerId |-> cid, date |-> d,
                          type |-> SUPPLY, quantity |-> newQty,
                          rate |-> dailyRate, amount |-> newQty * dailyRate,
                          balanceAfter |-> 0]},
                             !.nid = st.nid + 1]
        ELSE IF oldSupply # NoTx
             THEN [st EXCEPT !.tx = st.tx \ {oldSupply}]
             ELSE st

\* a payment branch that puts a fresh record under the key of the day's
\* record
reconcilePaymentPut(st, cid, d, newPay) ==
    LET oldPayment == oldRecord(st, cid, d, PAYMENT)
    IN  IF newPay > 0
        THEN IF oldPayment # NoTx
             THEN [st EXCEPT !.tx = (st.tx \ {oldPayment}) \cup
                        {[id |-> oldPayment.id, customerId |-> cid, date |-> d,
                          type |-> PAYMENT, quantity |-> 0, rate |-> 0,
                          amount |-> newPay, balanceAfter |-> 0]}]
             ELSE [st EXCEPT !.tx = st.tx \cup
                        {[id |-> st.nid, customerId |-> cid, date |-> d,
                          type |-> PAYMENT, quantity |-> 0, rate |-> 0,
                          amount |-> newPay, balanceAfter |-> 0]},
                             !.nid = st.nid + 1]
        ELSE IF oldPayment # NoTx
             THEN [st EXCEPT !.tx = st.tx \ {oldPayment}]
             ELSE st

\* the payment branch: the amount is stored as given
reconcilePayment(st, cid, d, newPay) ==
    LET oldPayment == oldRecord(st, cid, d, PAYMENT)
    IN  IF newPay > 0
        THEN IF oldPayment # NoTx
             THEN [st EXCEPT !.tx = (st.tx \ {oldPayment}) \cup
                        {[oldPayment EXCEPT !.amount = newPay]}]
             ELSE [st EXCEPT !.tx = st.tx \cup
                        {[id |-> st.nid, customerId |-> cid, date |-> d,
                          type |-> PAYMENT, quantity |-> 0, rate |-> 0,
                          amount |-> newPay, balanceAfter |-> 0]},
                             !.nid = st.nid + 1]
        ELSE IF oldPayment # NoTx
             THEN [st EXCEPT !.tx = st.tx \ {oldPayment}]
             ELSE st

\* both branches, in the order of the code
reconcileDay(st, cid, c, d, rate, entry) ==
    LET newQty == parseFloatOrZero(entry.qty)
        newPay == parseFloatOrZero(entry.pay)
        dailyRate == rate + c.supplyRate
    IN  reconcilePayment(reconcileSupply(st, cid, d, dailyRate, newQty),
                         cid, d, newPay)

\* a replay that starts from the stored currentBalance
replayFromCurrentBalance(st, cid, c) ==
    LET all == TxOf(st.tx, cid)
        acc == forwardPass(sortTx(all), 1,
                   [bal |-> st.cu[cid].currentBalance, sup |-> 0, paid |-> 0,
                    lsd |-> c.createdAt, out |-> {}])
    IN  [st EXCEPT !.tx = (st.tx \ all) \cup acc.out,
                   !.cu = [st.cu EXCEPT ![cid] =
                              [@ EXCEPT !.currentBalance = acc.bal,
                                        !.totalSupplied = acc.sup,
                                        !.totalPaid = acc.paid,
                                        !.lastSupplyDate = acc.lsd]]]

\* a replay that puts the records back under their keys in replay order
replayRenumbering(st, cid, c) ==
    LET all == TxOf(st.tx, cid)
        sorted == sortTx(all)
        keys == idSeq({t.id : t \in all})
        acc == forwardPass([i \in DOMAIN sorted |->
                               [sorted[i] EXCEPT !.id = keys[i]]], 1,
                   [bal |-> c.openingBalance, sup |-> 0, paid |-> 0,
                    lsd |-> c.createdAt, out |-> {}])
    IN  [st EXCEPT !.tx = (st.tx \ all) \cup acc.out,
                   !.cu = [st.cu EXCEPT ![cid] =
                              [@ EXCEPT !.currentBalance = acc.bal,
                                        !.totalSupplied = acc.sup,
                                        !.totalPaid = acc.paid,
                                        !.lastSupplyDate = acc.lsd]]]

\* a replay that also carries the final balance into openingBalance
replayCarryingForward(st, cid, c) ==
    LET all == TxOf(st.tx, cid)
        acc == forwardPass(sortTx(all), 1,
                   [bal |-> c.openingBalance, sup |-> 0, paid |-> 0,
                    lsd |-> c.createdAt, out |-> {}])
    IN  [st EXCEPT !.tx = (st.tx \ all) \cup acc.out,
                   !.cu = [st.cu EXCEPT ![cid] =
                              [@ EXCEPT !.openingBalance = acc.bal,
                                        !.currentBalance = acc.bal,
                                        !.totalSupplied = acc.sup,
                                        !.totalPaid = acc.paid,
                                        !.lastSupplyDate = acc.lsd]]]

\* a replay that loads the whole transactions table
replayWholeTable(st, cid, c) ==
    LET all == st.tx
        acc == forwardPass(sortTx(all), 1,
                   [bal |-> c.openingBalance, sup |-> 0, paid |-> 0,
                    lsd |-> c.createdAt, out |-> {}])
    IN  [st EXCEPT !.tx = (st.tx \ all) \cup acc.out,
                   !.cu = [st.cu EXCEPT ![cid] =
                              [@ EXCEPT !.currentBalance = acc.bal,
                                        !.totalSupplied = acc.sup,
                                        !.totalPaid = acc.paid,
                                        !.lastSupplyDate = acc.lsd]]]

\* the replay of the sheet: every record of the customer is rewritten and
\* the customer's four derived fields are stored
replayCustomer(st, cid, c) ==
    LET all == TxOf(st.tx, cid)
        acc == forwardPass(sortTx(all), 1,
                   [bal |-> c.openingBalance, sup |-> 0, paid |-> 0,
                    lsd |-> c.createdAt, out |-> {}])
    IN  [st EXCEPT !.tx = (st.tx \ all) \cup acc.out,
                   !.cu = [st.cu EXCEPT ![cid] =
                              [@ EXCEPT !.currentBalance = acc.bal,
                                        !.totalSupplied = acc.sup,
                                        !.totalPaid = acc.paid,
                                        !.lastSupplyDate = acc.lsd]]]

\* the body of the loop for one customer c of the sheet's customer list
processCustomer(st, cid, c, d, rate, entry) ==
    IF skipCheck(st, cid, d, entry) THEN st
    ELSE replayCustomer(reconcileDay(st, cid, c, d, rate, entry), cid, c)

\* for (const c of customers): run is [st, failed, replayed].  failAt = k > 0
\* makes a store write of the k-th customer throw after its reconciliation
\* writes and before its replay; failAt = 0 lets every write succeed.  The
\* sort of the replay throws by itself over a record with a string date.
RECURSIVE saveLoop(_, _, _, _, _, _, _, _)
saveLoop(run, ids, i, snapshot, d, rate, entries, failAt) ==
    IF i > Len(ids) \/ run.failed THEN run
    ELSE LET cid == ids[i]
             c == snapshot[cid]
             skip == skipCheck(run.st, cid, d, entries[cid])
         IN  IF skip
             THEN saveLoop(run, ids, i + 1, snapshot, d, rate, entries, failAt)
             ELSE IF \/ i = failAt
                     \/ sortThrows(TxOf(reconcileDay(run.st, cid, c, d, rate,
                                                     entries[cid]).tx, cid))
             THEN [run EXCEPT !.st = reconcileDay(run.st, cid, c, d, rate, entries[cid]),
                              !.failed = TRUE]
             ELSE saveLoop([run EXCEPT
                               !.st = processCustomer(run.st, cid, c, d, rate, entries[cid]),
                               !.replayed = run.replayed \cup {cid}],
                           ids, i + 1, snapshot, d, rate, entries, failAt)

\* a rollback that undoes the writes of the customer at which the callback
\* threw and keeps those of the customers processed before it
rollbackFailedCustomer(pre, run) ==
    IF run.failed
    THEN [tx |-> {t \in run.st.tx : t.customerId \in run.replayed}
                 \cup {t \in pre.tx : t.customerId \notin run.replayed},
          cu |-> [c \in DOMAIN pre.cu |->
                     IF c \in run.replayed THEN run.st.cu[c] ELSE pre.cu[c]],
          nid |-> run.st.nid]
    ELSE run.st

\* writes that land one by one and stay when the callback throws
commitEachWrite(pre, run) == run.st

\* db.transaction('rw', ...): the writes of the callback land together, or
\* none of them when the callback throws
dbTransaction(pre, run) ==
    IF run.failed THEN pre ELSE run.st

\* a settings write made inside the ledger transaction
settingsUpdateInTransaction(rate, run) ==
    IF run.failed THEN farmRate ELSE rate

\* await db.settings.update('global', { farmRate }): the stored farm rate
\* after the write, which is made before the ledger transaction opens
settingsUpdate(rate, run) == rate

\* handleSave: the settings write, then the ledger transaction, then the
\* completed state or the catch branch
handleSave(date, rate, entries, failAt) ==
    LET d == getStartOfDay(date)
        pre == [tx |-> transactions, cu |-> customers, nid |-> nextTxId]
    IN  /\ DOMAIN customers # {}
        /\ \E run \in {saveLoop([st |-> pre, failed |-> FALSE, replayed |-> {}],
                                idSeq(DOMAIN customers), 1, customers, d, rate,
                                entries, failAt)} :
           \E post \in {dbTransaction(pre, run)} :
            /\ failAt # 0 => run.failed
            /\ run.st.nid - 1 <= MaxTx
            /\ farmRate' = settingsUpdate(rate, run)
            /\ transactions' = post.tx
            /\ customers' = post.cu
            /\ nextTxId' = post.nid
            /\ last' = [op |-> "handleSave", cust |-> 0, day |-> d,
                        value |-> rate, failAt |-> failAt,
                        same |-> {c \in DOMAIN customers :
                                     SameAsStored(c, d, entries[c])},
                        negative |-> {c \in DOMAIN customers :
                                     NegativeInput(entries[c])},
                        result |-> IF run.failed THEN "error" ELSE "completed",
                        replayed |-> IF run.failed THEN {} ELSE run.replayed]
            /\ nOps' = nOps + 1
            /\ UNCHANGED nextCustId

----------------------------------------------------------------------------
(* Customers.handleSubmit                                                  *)

\* the add branch: db.customers.add(newCustomer); lastSupplyDate is not set
\* (0 stands for the missing field)
newCustomer(supplyRate, openingBalance, now) ==
    [supplyRate |-> supplyRate,
     openingBalance |-> openingBalance,
     currentBalance |-> openingBalance,
     totalSupplied |-> 0,
     totalPaid |-> 0,
     lastSupplyDate |-> 0,
     createdAt |-> now]

\* db.customers.add under the next auto-increment key
createCustomer(supplyRate, openingBalance, now) ==
    LET id == nextCustId
    IN  /\ id \in CustomerIds
        /\ customers' = [i \in DOMAIN customers \cup {id} |->
                            IF i = id
                            THEN newCustomer(supplyRate, openingBalance, now)
                            ELSE customers[i]]
        /\ nextCustId' = id + 1
        /\ last' = [NoOp EXCEPT !.op = "createCustomer", !.cust = id,
                                !.result = "completed"]
        /\ nOps' = nOps + 1
        /\ UNCHANGED <<transactions, nextTxId, farmRate>>

\* recalculateCustomerBalance: the replay from the new opening balance; it
\* stores openingBalance, currentBalance, totalSupplied and totalPaid
recalculateCustomerBalance(st, customerId, newOpeningBalance) ==
    LET all == TxOf(st.tx, customerId)
        acc == forwardPass(sortTx(all), 1,
                   [bal |-> newOpeningBalance, sup |-> 0, paid |-> 0,
                    lsd |-> 0, out |-> {}])
    IN  [st EXCEPT !.tx = (st.tx \ all) \cup acc.out,
                   !.cu = [st.cu EXCEPT ![customerId] =
                              [@ EXCEPT !.openingBalance = newOpeningBalance,
                                        !.currentBalance = acc.bal,
                                        !.totalSupplied = acc.sup,
                                        !.totalPaid = acc.paid]]]

\* the edit branch: the basic details, then the recalculation when the
\* opening balance of the form differs from the one the form was opened
\* with; when the recalculation's sort throws, its transaction writes
\* nothing and the catch branch runs
editCustomer(id, supplyRate, newOpening) ==
    LET oldOpening == customers[id].openingBalance
        basic == [tx |-> transactions,
                  cu |-> [customers EXCEPT ![id].supplyRate = supplyRate],
                  nid |-> nextTxId]
        throws == oldOpening # newOpening /\ sortThrows(TxOf(transactions, id))
        post == IF oldOpening # newOpening /\ ~throws
                THEN recalculateCustomerBalance(basic, id, newOpening)
                ELSE basic
    IN  /\ id \in DOMAIN customers
        /\ transactions' = post.tx
        /\ customers' = post.cu
        /\ last' = [NoOp EXCEPT !.op = "editCustomer", !.cust = id,
                                !.value = newOpening,
                                !.result = IF throws THEN "error"
                                           ELSE "completed",
                                !.replayed = IF oldOpening # newOpening /\ ~throws
                                             THEN {id} ELSE {}]
        /\ nOps' = nOps + 1
        /\ UNCHANGED <<nextCustId, nextTxId, farmRate>>

----------------------------------------------------------------------------
(* AddSupply.handleSubmit and AddPayment.handleSubmit                      *)

\* the supply form: one record is added with the balance computed from the
\* customer's stored currentBalance, and the customer's totals are bumped
addSupply(id, date, quantity) ==
    LET selectedCustomer == customers[id]
        dailyRate == farmRate + selectedCustomer.supplyRate
        dailyAmount == quantity * dailyRate
        balanceAfter == selectedCustomer.currentBalance + dailyAmount
        transaction == [id |-> nextTxId, customerId |-> id,
                        date |-> dateObj(date), type |-> SUPPLY,
                        quantity |-> quantity, rate |-> dailyRate,
                        amount |-> dailyAmount, balanceAfter |-> balanceAfter]
    IN  /\ id \in DOMAIN customers
        /\ quantity > 0
        /\ nextTxId <= MaxTx
        /\ transactions' = transactions \cup {transaction}
        /\ customers' = [customers EXCEPT ![id] =
                            [@ EXCEPT !.currentBalance = balanceAfter,
                                      !.totalSupplied = @ + quantity,
                                      !.lastSupplyDate = dateObj(date)]]
        /\ nextTxId' = nextTxId + 1
        /\ last' = [NoOp EXCEPT !.op = "addSupply", !.cust = id,
                                !.day = dateObj(date), !.value = quantity,
                                !.result = "completed"]
        /\ nOps' = nOps + 1
        /\ UNCHANGED <<nextCustId, farmRate>>

\* a payment that raises the balance
paymentBalanceAdded(selectedCustomer, amount) ==
    selectedCustomer.currentBalance + amount

\* "Balance decreases when customer pays"
paymentBalance(selectedCustomer, amount) ==
    selectedCustomer.currentBalance - amount

\* the payment form: one record is added and the customer's balance and
\* totalPaid are updated
addPayment(id, date, amount, method, notes) ==
    LET selectedCustomer == customers[id]
        balanceAfter == paymentBalance(selectedCustomer, amount)
        transaction == [id |-> nextTxId, customerId |-> id,
                        date |-> dateObj(date), type |-> PAYMENT,
                        quantity |-> 0, rate |-> 0,
                        amount |-> amount, paymentMethod |-> method,
                        notes |-> notes, balanceAfter |-> balanceAfter]
    IN  /\ id \in DOMAIN customers
        /\ amount > 0
        /\ nextTxId <= MaxTx
        /\ transactions' = transactions \cup {transaction}
        /\ customers' = [customers EXCEPT ![id] =
                            [@ EXCEPT !.currentBalance = balanceAfter,
                                      !.totalPaid = @ + amount]]
        /\ nextTxId' = nextTxId + 1
        /\ last' = [NoOp EXCEPT !.op = "addPayment", !.cust = id,
                                !.day = dateObj(date), !.value = amount,
                                !.result = "completed"]
        /\ nOps' = nOps + 1
        /\ UNCHANGED <<nextCustId, farmRate>>

----------------------------------------------------------------------------
(* Customers.handleDelete / CustomerDetail.handleDelete                    *)

\* a delete that removes the customer's record and leaves its transactions
deleteCustomerRecordOnly(st, id) ==
    [st EXCEPT !.cu = [i \in DOMAIN st.cu \ {id} |-> st.cu[i]]]

\* db.customers.delete(id), then the delete of every transaction with
\* that customerId
deleteCustomerAndTransactions(st, id) ==
    [st EXCEPT !.cu = [i \in DOMAIN st.cu \ {id} |-> st.cu[i]],
               !.tx = st.tx \ TxOf(st.tx, id)]

\* the delete inside one 'rw' transaction; fails makes the second write
\* throw after the customer's record was deleted
handleDelete(id, fails) ==
    LET pre == [tx |-> transactions, cu |-> customers, nid |-> nextTxId]
        run == IF fails
               THEN [st |-> [pre EXCEPT !.cu = [i \in DOMAIN pre.cu \ {id} |->
                                                   pre.cu[i]]],
                     failed |-> TRUE, replayed |-> {}]
               ELSE [st |-> deleteCustomerAndTransactions(pre, id),
                     failed |-> FALSE, replayed |-> {}]
        post == dbTransaction(pre, run)
    IN  /\ id \in DOMAIN customers
        /\ transactions' = post.tx
        /\ customers' = post.cu
        /\ last' = [NoOp EXCEPT !.op = "handleDelete", !.cust = id,
                                !.result = IF fails THEN "error"
                                           ELSE "completed"]
        /\ nOps' = nOps + 1
        /\ UNCHANGED <<nextCustId, nextTxId, farmRate>>

----------------------------------------------------------------------------
(* Settings.importData                                                     *)
(* A backup file is [customers, transactions, farmRate] as getFullExport   *)
(* wrote it, dates given by their day.                                     *)

\* the greatest primary key of a set of keys, 0 of none
maxKey(K) == IF K = {} THEN 0 ELSE CHOOSE k \in K : \A j \in K : j <= k

\* clear() of the three tables, then bulkAdd of the parsed file as it is
importVerbatim(data) ==
    [tx |-> {[t EXCEPT !.date = jsonDate(@)] : t \in data.transactions},
     cu |-> [i \in DOMAIN data.customers |->
                [data.customers[i] EXCEPT
                    !.createdAt = jsonDate(@),
                    !.lastSupplyDate = IF @ = 0 THEN 0 ELSE jsonDate(@)]]]

\* importData: the tables hold what the file holds; the key generators
\* move past the imported keys
importData(data) ==
    LET post == importVerbatim(data)
    IN  /\ transactions' = post.tx
        /\ customers' = post.cu
        /\ farmRate' = data.farmRate
        /\ nextTxId' = IF maxKey({t.id : t \in post.tx}) >= nextTxId
                       THEN maxKey({t.id : t \in post.tx}) + 1 ELSE nextTxId
        /\ nextCustId' = IF maxKey(DOMAIN post.cu) >= nextCustId
                         THEN maxKey(DOMAIN post.cu) + 1 ELSE nextCustId
        /\ last' = [NoOp EXCEPT !.op = "importData", !.result = "completed"]
        /\ nOps' = nOps + 1

----------------------------------------------------------------------------
(* The application                                                         *)

\* the database after initSettings: no customer, no transaction
Init ==
    /\ customers = <<>>
    /\ transactions = {}
    /\ nextCustId = 1
    /\ nextTxId = 1
    /\ farmRate = DefaultFarmRate
    /\ last = NoOp
    /\ nOps = 0
    /\ proposed = NoSheet
    /\ view = NoView

\* a sheet row as typed
Entries == [qty : QtyInputs, pay : PayInputs]

\* the store as the handlers see it
Store == [tx |-> transactions, cu |-> customers, nid |-> nextTxId]

\* the sheet of the save being run: its rows, its rate and, when the save
\* ends in the catch branch, the store it started from.  The catch branch
\* leaves the sheet's fields as typed, so the next save of the same day with
\* the same rows and rate is a second press of Save on that sheet.
sheetOf(entries, rate) ==
    [rows |-> entries, rate |-> rate,
     from |-> IF last'.result = "error" THEN Store ELSE NoSheet.from,
     retried |-> /\ last.op = "handleSave" /\ last.result = "error"
                 /\ last'.result = "completed" /\ last'.day = last.day
                 /\ proposed.rows = entries /\ proposed.rate = rate]

CreateCustomer ==
    \E o \in OpeningBalances, now \in CreationDays :
        createCustomer(DefaultSupplyRate, o, now) /\ proposed' = NoSheet /\ view' = view

EditCustomer ==
    \E id \in DOMAIN customers, o \in OpeningBalances :
        editCustomer(id, customers[id].supplyRate, o) /\ proposed' = NoSheet /\ view' = view

HandleSave ==
    \E date \in Days, rate \in FarmRates,
       entries \in [DOMAIN customers -> Entries],
       failAt \in 0..Cardinality(DOMAIN customers) :
        handleSave(date, rate, entries, failAt) /\ proposed' = NoSheet /\ view' = view

AddSupply ==
    \E id \in DOMAIN customers, date \in Days, q \in AdHocQuantities :
        addSupply(id, date, q) /\ proposed' = NoSheet /\ view' = view

AddPayment ==
    \E id \in DOMAIN customers, date \in Days, a \in AdHocAmounts :
        addPayment(id, date, a, CASH, "") /\ proposed' = NoSheet /\ view' = view

Next ==
    /\ nOps < MaxOps
    /\ \/ CreateCustomer
       \/ EditCustomer
       \/ HandleSave
       \/ AddSupply
       \/ AddPayment

Spec == Init /\ [][Next]_vars

----------------------------------------------------------------------------
(* One customer's ledger, followed for more handlers: the customer exists, *)
(* the sheet's rate field is left as loaded and no store write fails.      *)

LedgerDays == {1, 2, 3}
LedgerQtyInputs == {"", "1", "2"}
LedgerPayInputs == {"", "600"}

InitLedger ==
    /\ \E o \in OpeningBalances, now \in CreationDays :
          customers = [i \in {1} |-> newCustomer(DefaultSupplyRate, o, now)]
    /\ transactions = {}
    /\ nextCustId = 2
    /\ nextTxId = 1
    /\ farmRate = DefaultFarmRate
    /\ last = [NoOp EXCEPT !.op = "createCustomer", !.cust = 1,
                           !.result = "completed"]
    /\ nOps = 0
    /\ proposed = NoSheet
    /\ view = NoView

LedgerSave ==
    \E date \in LedgerDays, q \in LedgerQtyInputs, p \in LedgerPayInputs :
        /\ handleSave(date, farmRate,
                      [c \in DOMAIN customers |-> [qty |-> q, pay |-> p]], 0)
        /\ proposed' = NoSheet /\ view' = view

LedgerSupply ==
    \E date \in LedgerDays : addSupply(1, date, 1) /\ proposed' = NoSheet /\ view' = view

LedgerPayment ==
    \E date \in LedgerDays, a \in AdHocAmounts :
        addPayment(1, date, a, CASH, "") /\ proposed' = NoSheet /\ view' = view

LedgerEdit ==
    \E o \in OpeningBalances :
        editCustomer(1, customers[1].supplyRate, o) /\ proposed' = NoSheet /\ view' = view

NextLedger ==
    /\ nOps < MaxSteps
    /\ \/ LedgerSave
       \/ LedgerSupply
       \/ LedgerPayment
       \/ LedgerEdit

SpecLedger == InitLedger /\ [][NextLedger]_vars

----------------------------------------------------------------------------
(* The daily sheet of one customer under the rates the forms allow: the    *)
(* customer's add-on rate is the form's initial 0 or the default, the      *)
(* sheet's rate field is empty (0) or the default.                         *)

MaxSheetSteps == 3

SupplyRates == {0, DefaultSupplyRate}
SheetRates == {0, DefaultFarmRate}
SheetQtyInputs == {"", "8", "10"}

InitSheet ==
    /\ \E r \in SupplyRates, now \in CreationDays :
          customers = [i \in {1} |-> newCustomer(r, 0, now)]
    /\ transactions = {}
    /\ nextCustId = 2
    /\ nextTxId = 1
    /\ farmRate = DefaultFarmRate
    /\ last = [NoOp EXCEPT !.op = "createCustomer", !.cust = 1,
                           !.result = "completed"]
    /\ nOps = 0
    /\ proposed = NoSheet
    /\ view = NoView

SheetSave ==
    \E date \in Days, rate \in SheetRates,
       q \in SheetQtyInputs, p \in LedgerPayInputs :
        LET entries == [c \in DOMAIN customers |-> [qty |-> q, pay |-> p]]
        IN  /\ handleSave(date, rate, entries, 0)
            /\ proposed' = sheetOf(entries, rate)
            /\ view' = view

SheetSupply ==
    \E date \in Days : addSupply(1, date, 1) /\ proposed' = NoSheet /\ view' = view

\* the method and the notes of the payment form: as the form opens, or
\* filled in
PaymentForms == {[method |-> CASH, notes |-> ""],
                 [method |-> CHEQUE, notes |-> "advance"]}

\* the amount typed into the payment form
FormAmounts == {100}

SheetPayment ==
    \E date \in Days, a \in FormAmounts, form \in PaymentForms :
        addPayment(1, date, a, form.method, form.notes) /\ proposed' = NoSheet /\ view' = view

NextSheet ==
    /\ nOps < MaxSheetSteps
    /\ \/ SheetSave
       \/ SheetSupply
       \/ SheetPayment

SpecSheet == InitSheet /\ [][NextSheet]_vars

----------------------------------------------------------------------------
(* Two customers on one sheet: saves that may fail, edits, deletes and the *)
(* restore of a backup file.                                               *)

MaxPairSteps == 2

PairEntries == [qty : {"", "1"}, pay : {"", "600"}]

\* a day-1 supply of quantity 1 as a completed sheet save stores it
sheetSupply(id, cid, balanceAfter) ==
    [id |-> id, customerId |-> cid, date |-> 1, type |-> SUPPLY,
     quantity |-> 1, rate |-> DefaultFarmRate + DefaultSupplyRate,
     amount |-> DefaultFarmRate + DefaultSupplyRate,
     balanceAfter |-> balanceAfter]

\* the export of a ledger of customer 1 after a sheet save of day 1
BackupAfterSheet ==
    [customers |-> [i \in {1} |->
        [newCustomer(DefaultSupplyRate, 0, 2) EXCEPT
            !.currentBalance = 160, !.totalSupplied = 1,
            !.lastSupplyDate = 1]],
     transactions |-> {sheetSupply(1, 1, 160)},
     farmRate |-> DefaultFarmRate]

\* the export of a ledger of customer 1 after the supply form added a
\* supply of day 2 and then one of day 1
BackupAfterForms ==
    [customers |-> [i \in {1} |->
        [newCustomer(DefaultSupplyRate, 0, 2) EXCEPT
            !.currentBalance = 320, !.totalSupplied = 2,
            !.lastSupplyDate = 1]],
     transactions |-> {[sheetSupply(1, 1, 160) EXCEPT !.date = 2],
                       sheetSupply(2, 1, 320)},
     farmRate |-> DefaultFarmRate]

BackupFiles == {BackupAfterSheet, BackupAfterForms}

\* both customers exist; the ledger is empty or holds the day-1 sheet
InitPair ==
    /\ \E o \in OpeningBalances, now \in CreationDays, sheet \in BOOLEAN :
          /\ customers = [i \in {1, 2} |->
                IF sheet
                THEN [newCustomer(DefaultSupplyRate, IF i = 1 THEN o ELSE 0, now)
                         EXCEPT !.currentBalance = @ + 160,
                                !.totalSupplied = 1, !.lastSupplyDate = 1]
                ELSE newCustomer(DefaultSupplyRate, IF i = 1 THEN o ELSE 0, now)]
          /\ transactions = IF sheet
                            THEN {sheetSupply(1, 1, o + 160),
                                  sheetSupply(2, 2, 160)}
                            ELSE {}
          /\ nextTxId = IF sheet THEN 3 ELSE 1
    /\ nextCustId = 3
    /\ farmRate = DefaultFarmRate
    /\ last = [NoOp EXCEPT !.op = "createCustomer", !.cust = 2,
                           !.result = "completed"]
    /\ nOps = 0
    /\ proposed = NoSheet
    /\ view = NoView

PairSave ==
    \E date \in Days, entries \in [DOMAIN customers -> PairEntries],
       failAt \in 0..Cardinality(DOMAIN customers) :
        /\ handleSave(date, farmRate, entries, failAt)
        /\ proposed' = sheetOf(entries, farmRate)
        /\ view' = view

PairSupply ==
    \E id \in DOMAIN customers, date \in Days :
        addSupply(id, date, 1) /\ proposed' = NoSheet /\ view' = view

PairEdit ==
    \E id \in DOMAIN customers, o \in OpeningBalances :
        editCustomer(id, customers[id].supplyRate, o) /\ proposed' = NoSheet /\ view' = view

PairDelete ==
    \E id \in DOMAIN customers, fails \in BOOLEAN :
        handleDelete(id, fails) /\ proposed' = NoSheet /\ view' = view

PairImport ==
    \E data \in BackupFiles : importData(data) /\ proposed' = NoSheet /\ view' = view

NextPair ==
    /\ nOps < MaxPairSteps
    /\ \/ PairSave
       \/ PairSupply
       \/ PairEdit
       \/ PairDelete
       \/ PairImport

SpecPair == InitPair /\ [][NextPair]_vars

----------------------------------------------------------------------------
(* The DailyRecord component followed await by await: the date picker and  *)
(* the fetch of the date's entries it starts, the fetch's continuation,    *)
(* typing into the row, and handleSave from the click over the settings    *)
(* write to the end of the ledger transaction.  One customer; its ledger   *)
(* is empty or holds the day-1 sheet.                                      *)

MaxViewSteps == 4       \* things the operator does in one behaviour

Today == 1                                  \* formatInputDate(new Date())
ViewQtyInputs == {"", "2"}
ViewPayInputs == {"", "600"}

\* Number.prototype.toString of a stored quantity or amount
numberToString(n) ==
    CASE n = 0   -> "0"
      [] n = 1   -> "1"
      [] n = 2   -> "2"
      [] n = 8   -> "8"
      [] n = 10  -> "10"
      [] n = 100 -> "100"
      [] n = 600 -> "600"
      [] OTHER   -> "NaN"

\* newInputs[c.id] of fetchExisting: the texts of the day's first supply
\* quantity and first payment amount of the customer, blank without one
existingEntry(tx, cid, d) ==
    LET existingTrans == TxOnDay(tx, getStartOfDay(d))
        supply == FirstById({t \in existingTrans :
                               t.customerId = cid /\ t.type = SUPPLY})
        payment == FirstById({t \in existingTrans :
                                t.customerId = cid /\ t.type = PAYMENT})
    IN  [qty |-> IF supply # NoTx THEN numberToString(supply.quantity) ELSE "",
         pay |-> IF payment # NoTx THEN numberToString(payment.amount) ELSE ""]

\* a continuation that applies the result of every fetch
everyFetchCurrent(currentFetchId, counter) == TRUE

\* currentFetchId === fetchCounter.current (the continuation returns
\* otherwise)
isCurrentFetch(currentFetchId, counter) == currentFetchId = counter

\* disabled={loading || customers.length === 0} of the Save button
saveDisabled(loading, n) == loading \/ n = 0

\* a flag that is cleared after the transaction, in the try block
loadingStaysAfterCatch(failed) == failed

\* finally { setLoading(false) }: the loading flag after the save ended,
\* failed or not
loadingAfterSave(failed) == FALSE

\* the component as mounted: blank inputs, and the first fetch, of today's
\* entries, in flight
mounted ==
    [NoView EXCEPT !.date = Today, !.fetchCounter = 1,
                   !.fetches = {[id |-> 1, date |-> Today]},
                   !.fetching = TRUE, !.event = "mount"]

InitView ==
    /\ \E sheet \in BOOLEAN :
          /\ customers = [i \in {1} |->
                IF sheet
                THEN [newCustomer(DefaultSupplyRate, 0, Today)
                         EXCEPT !.currentBalance = 160,
                                !.totalSupplied = 1, !.lastSupplyDate = 1]
                ELSE newCustomer(DefaultSupplyRate, 0, Today)]
          /\ transactions = IF sheet THEN {sheetSupply(1, 1, 160)} ELSE {}
          /\ nextTxId = IF sheet THEN 2 ELSE 1
    /\ nextCustId = 2
    /\ farmRate = DefaultFarmRate
    /\ last = [NoOp EXCEPT !.op = "createCustomer", !.cust = 1,
                           !.result = "completed"]
    /\ nOps = 0
    /\ proposed = NoSheet
    /\ view = mounted

\* onChange of the date picker: setDate, and the effect on [date] that
\* starts fetchExisting for the new date
setDate(d) ==
    /\ ~view.completed
    /\ d # view.date
    /\ view' = [view EXCEPT
                   !.date = d,
                   !.fetchCounter = @ + 1,
                   !.fetches = @ \cup {[id |-> view.fetchCounter + 1,
                                        date |-> d]},
                   !.fetching = TRUE,
                   !.event = "setDate"]
    /\ nOps' = nOps + 1
    /\ UNCHANGED <<customers, transactions, nextCustId, nextTxId, farmRate,
                   last, proposed>>

\* the continuation of fetchExisting after its await: f is the fetch that
\* resolves
fetchExisting(f) ==
    /\ f \in view.fetches
    /\ view' = IF isCurrentFetch(f.id, view.fetchCounter)
               THEN [view EXCEPT
                        !.fetches = @ \ {f},
                        !.inputs = existingEntry(transactions, 1, f.date),
                        !.fetching = FALSE,
                        !.qtyDay = f.date, !.payDay = f.date,
                        !.typed = FALSE,
                        !.event = "fetchApplied"]
               ELSE [view EXCEPT !.fetches = @ \ {f},
                                 !.event = "fetchDiscarded"]
    /\ UNCHANGED <<customers, transactions, nextCustId, nextTxId, farmRate,
                   last, nOps, proposed>>

\* handleInputChange(id, field, value) of customer 1's row
handleInputChange(field, value) ==
    /\ ~view.completed
    /\ view.inputs[field] # value
    /\ view' = [view EXCEPT
                   !.inputs[field] = value,
                   !.qtyDay = IF field = "qty" THEN view.date ELSE @,
                   !.payDay = IF field = "pay" THEN view.date ELSE @,
                   !.typed = TRUE,
                   !.event = "handleInputChange"]
    /\ nOps' = nOps + 1
    /\ UNCHANGED <<customers, transactions, nextCustId, nextTxId, farmRate,
                   last, proposed>>

\* the click on Save: handleSave runs up to its first await with the date
\* and the inputs of the render the click came from
handleSaveClick ==
    /\ ~view.completed
    /\ ~saveDisabled(view.loading, Cardinality(DOMAIN customers))
    /\ view' = [view EXCEPT
                   !.loading = TRUE,
                   !.save = [pc |-> "settings", date |-> view.date,
                             inputs |-> view.inputs],
                   !.event = "handleSaveClick"]
    /\ nOps' = nOps + 1
    /\ UNCHANGED <<customers, transactions, nextCustId, nextTxId, farmRate,
                   last, proposed>>

\* await db.settings.update('global', { farmRate }) resolves and the
\* ledger transaction is opened; the rate field holds the rate as loaded
handleSaveSettings ==
    /\ view.save.pc = "settings"
    /\ farmRate' = farmRate
    /\ view' = [view EXCEPT !.save.pc = "ledger",
                            !.event = "handleSaveSettings"]
    /\ UNCHANGED <<customers, transactions, nextCustId, nextTxId, last, nOps,
                   proposed>>

\* the ledger transaction ends: committed, then setCompleted(true), or
\* aborted, then the catch branch; then the finally branch
handleSaveLedger(failAt) ==
    LET d == getStartOfDay(view.save.date)
        pre == Store
        entries == [c \in DOMAIN customers |-> view.save.inputs]
    IN  /\ view.save.pc = "ledger"
        /\ \E run \in {saveLoop([st |-> pre, failed |-> FALSE, replayed |-> {}],
                                idSeq(DOMAIN customers), 1, customers, d,
                                farmRate, entries, failAt)} :
           \E post \in {dbTransaction(pre, run)} :
            /\ failAt # 0 => run.failed
            /\ transactions' = post.tx
            /\ customers' = post.cu
            /\ nextTxId' = post.nid
            /\ last' = [op |-> "handleSave", cust |-> 0, day |-> d,
                        value |-> farmRate, failAt |-> failAt,
                        same |-> {c \in DOMAIN customers :
                                     SameAsStored(c, d, entries[c])},
                        negative |-> {},
                        result |-> IF run.failed THEN "error" ELSE "completed",
                        replayed |-> IF run.failed THEN {} ELSE run.replayed]
            /\ view' = [view EXCEPT
                           !.completed = ~run.failed,
                           !.loading = loadingAfterSave(run.failed),
                           !.save.pc = "idle",
                           !.event = "handleSaveLedger"]
        /\ UNCHANGED <<nextCustId, farmRate, nOps, proposed>>

\* onSuccess() leaves the completed screen, and the sheet is opened anew;
\* what the fetches of the old component resolve to is dropped with it
onSuccess ==
    /\ view.completed
    /\ view' = mounted
    /\ nOps' = nOps + 1
    /\ UNCHANGED <<customers, transactions, nextCustId, nextTxId, farmRate,
                   last, proposed>>

ViewSetDate == \E d \in Days : setDate(d)

ViewFetchExisting == \E f \in view.fetches : fetchExisting(f)

ViewInputChange ==
    \/ \E q \in ViewQtyInputs : handleInputChange("qty", q)
    \/ \E p \in ViewPayInputs : handleInputChange("pay", p)

ViewSaveLedger ==
    \E failAt \in 0..Cardinality(DOMAIN customers) : handleSaveLedger(failAt)

NextView ==
    \/ /\ nOps < MaxViewSteps
       /\ \/ ViewSetDate
          \/ ViewInputChange
          \/ handleSaveClick
          \/ onSuccess
    \/ ViewFetchExisting
    \/ handleSaveSettings
    \/ ViewSaveLedger

SpecView == InitView /\ [][NextView]_vars

\* The same component over shorter behaviours in which the date stays the
\* one of the mount, with every IndexedDB request made by a running
\* handleSave answered in the end.

MaxLiveSteps == 2       \* things the operator does in one behaviour

NextViewLive ==
    \/ /\ nOps < MaxLiveSteps
       /\ \/ ViewInputChange
          \/ handleSaveClick
          \/ onSuccess
    \/ ViewFetchExisting
    \/ handleSaveSettings
    \/ ViewSaveLedger

SpecViewLive ==
    /\ InitView /\ [][NextViewLive]_vars
    /\ WF_vars(handleSaveSettings) /\ WF_vars(ViewSaveLedger)

----------------------------------------------------------------------------
(* The canonical order and the balances a replay from scratch yields, told *)
(* from the stored records alone                                           *)

\* a comes before b: day ascending, SUPPLY before PAYMENT, id ascending
CanonBefore(a, b) ==
    \/ a.date < b.date
    \/ /\ a.date = b.date
       /\ \/ a.type = SUPPLY /\ b.type = PAYMENT
          \/ a.type = b.type /\ a.id < b.id

\* what a record adds to the balance
Signed(t) == IF t.type = SUPPLY THEN t.amount ELSE 0 - t.amount

RECURSIVE SumSigned(_)
SumSigned(S) ==
    IF S = {} THEN 0
    ELSE LET t == CHOOSE x \in S : TRUE
         IN  Signed(t) + SumSigned(S \ {t})

RECURSIVE SumQuantity(_)
SumQuantity(S) ==
    IF S = {} THEN 0
    ELSE LET t == CHOOSE x \in S : TRUE
         IN  t.quantity + SumQuantity(S \ {t})

RECURSIVE SumAmount(_)
SumAmount(S) ==
    IF S = {} THEN 0
    ELSE LET t == CHOOSE x \in S : TRUE
         IN  t.amount + SumAmount(S \ {t})

\* the running balance after t in the canonical order of the records tx of
\* a customer whose opening balance is opening
ExpectedBalance(tx, opening, t) ==
    opening + SumSigned({u \in tx : u.customerId = t.customerId
                                     /\ (u = t \/ CanonBefore(u, t))})

\* every record of customer c carries the balance of the forward pass
Replayed(tx, cu, c) ==
    \A t \in TxOf(tx, c) :
        t.balanceAfter = ExpectedBalance(tx, cu[c].openingBalance, t)

\* the step just taken ran a handler
Ran(op) == nOps' = nOps + 1 /\ last'.op = op

----------------------------------------------------------------------------
(* Claims                                                                  *)

\* C1: after a sheet save that completed, every customer whose row did not
\* hold the stored values has all of its records, the ones just inserted
\* with balanceAfter 0 included, at the running balance of the forward pass
\* from its openingBalance in canonical order.
C1_ReconciliationReplays ==
    (last.op = "handleSave" /\ last.result = "completed") =>
        \A c \in DOMAIN customers \ last.same :
            Replayed(transactions, customers, c)

\* a completed save of a changed row whose day holds a record inserted
\* after a record of a later day
C1_Witness ==
    /\ last.op = "handleSave" /\ last.result = "completed"
    /\ \E c \in DOMAIN customers \ last.same :
       \E t, u \in TxOf(transactions, c) :
          /\ t.date = last.day /\ t.id = nextTxId - 1
          /\ u.date > t.date /\ u.id < t.id

\* C2: for every customer, totalSupplied is the sum of its supplies'
\* quantities, totalPaid the sum of its payments' amounts, and
\* currentBalance is openingBalance plus the supplies' amounts minus
\* totalPaid.
C2_AggregateAgreement ==
    \A c \in DOMAIN customers :
        LET S == {t \in TxOf(transactions, c) : t.type = SUPPLY}
            P == {t \in TxOf(transactions, c) : t.type = PAYMENT}
        IN  /\ customers[c].totalSupplied = SumQuantity(S)
            /\ customers[c].totalPaid = SumAmount(P)
            /\ customers[c].currentBalance =
                  customers[c].openingBalance + SumAmount(S)
                      - customers[c].totalPaid

\* a customer with supplies and payments whose opening balance was edited
C2_Witness ==
    /\ last.op = "editCustomer" /\ last.replayed # {}
    /\ \E c \in last.replayed :
          customers[c].totalSupplied > 0 /\ customers[c].totalPaid > 0

\* the records of customer c of one day and one type
DayRecords(tx, c, d, type) ==
    {t \in TxOf(tx, c) : t.date = d /\ t.type = type}

\* the primary keys and amounts of a set of records
IdAmounts(S) == {<<t.id, t.amount>> : t \in S}

\* C3: when a completed sheet save changes the quantity of a customer's
\* supply of day D1 (its payment of D1 left as stored) and the customer has
\* records on two later days D2 < D3, every record of the customer carries
\* the balance of a replay from scratch of the edited records, and every
\* record of a later day carries its former balanceAfter plus the change in
\* D1's supply amount.
C3_RippleShift ==
    [][\A c \in DOMAIN customers :
        LET D1 == last'.day
            oldS == DayRecords(transactions, c, D1, SUPPLY)
            newS == DayRecords(transactions', c, D1, SUPPLY)
            delta == SumAmount(newS) - SumAmount(oldS)
            later == {t \in TxOf(transactions, c) : t.date > D1}
        IN  (/\ Ran("handleSave") /\ last'.result = "completed"
             /\ \E s \in oldS, s2 \in newS :
                   s.id = s2.id /\ s.quantity # s2.quantity
             /\ IdAmounts(DayRecords(transactions, c, D1, PAYMENT)) =
                   IdAmounts(DayRecords(transactions', c, D1, PAYMENT))
             /\ \E t, u \in later : t.date < u.date)
            => /\ Replayed(transactions', customers', c)
               /\ \A t \in later :
                     [t EXCEPT !.balanceAfter = @ + delta] \in transactions'
      ]_vars

\* C4: an edit of a customer's opening balance from B to B + X runs the
\* recalculation, after which the stored openingBalance is B + X, the
\* currentBalance and the balanceAfter of every record of the customer are
\* X higher than before, no record is added or removed and totalSupplied
\* and totalPaid are as before.
C4_OpeningShift ==
    [][\A c \in DOMAIN customers :
        LET X == last'.value - customers[c].openingBalance
        IN  (Ran("editCustomer") /\ last'.cust = c /\ X # 0)
            => /\ last'.replayed = {c}
               /\ customers'[c].openingBalance = last'.value
               /\ customers'[c].currentBalance = customers[c].currentBalance + X
               /\ customers'[c].totalSupplied = customers[c].totalSupplied
               /\ customers'[c].totalPaid = customers[c].totalPaid
               /\ TxOf(transactions', c) =
                     {[t EXCEPT !.balanceAfter = @ + X] : t \in TxOf(transactions, c)}
      ]_vars

\* the balance of customer c before day d: the opening balance and every
\* record of an earlier day
BalanceBefore(tx, cu, c, d) ==
    cu[c].openingBalance + SumSigned({t \in TxOf(tx, c) : t.date < d})

\* C5: after a replay of a customer, on every day on which the customer has
\* one SUPPLY and one PAYMENT the SUPPLY's balanceAfter is the balance
\* before that day plus the supply amount and the PAYMENT's balanceAfter is
\* that value minus the payment amount, whichever of the two has the lower
\* id.
C5_SupplyBeforePayment ==
    \A c \in last.replayed : \A d \in LedgerDays :
        LET S == DayRecords(transactions, c, d, SUPPLY)
            P == DayRecords(transactions, c, d, PAYMENT)
        IN  (Cardinality(S) = 1 /\ Cardinality(P) = 1) =>
                \A s \in S, p \in P :
                    /\ s.balanceAfter =
                          BalanceBefore(transactions, customers, c, d) + s.amount
                    /\ p.balanceAfter = s.balanceAfter - p.amount

\* a replayed customer with a day whose payment was inserted before its
\* supply, after a day that has records too
C5_Witness ==
    \E c \in last.replayed : \E d \in LedgerDays :
        LET S == DayRecords(transactions, c, d, SUPPLY)
            P == DayRecords(transactions, c, d, PAYMENT)
        IN  /\ Cardinality(S) = 1 /\ Cardinality(P) = 1
            /\ \E s \in S, p \in P : p.id < s.id
            /\ \E t \in TxOf(transactions, c) : t.date < d

\* C6: a sheet save leaves alone every customer whose row proposes the
\* stored quantity (or none where none is stored) and the stored payment (or
\* none where none is stored): the customer's records, all fields included,
\* and the customer's record are what they were before the save.
C6_NoOpShortCircuit ==
    [][Ran("handleSave") =>
         \A c \in last'.same :
            /\ TxOf(transactions', c) = TxOf(transactions, c)
            /\ customers'[c] = customers[c]
      ]_vars

\* a completed save whose row re-submitted the stored quantity of a supply
\* under a farm rate other than the one the supply was stored with
C6_Witness ==
    /\ last.op = "handleSave" /\ last.result = "completed"
    /\ \E c \in last.same :
       \E t \in DayRecords(transactions, c, last.day, SUPPLY) :
          t.rate # farmRate + customers[c].supplyRate

\* C7: at every reachable state and for every customer, the sheet's replay
\* run twice leaves the store as run once, and so does the recalculation
\* for any opening balance; and right after a handler ran a replay, the
\* same replay run again changes no stored value.
C7_ReplayIdempotent ==
    \A c \in DOMAIN customers :
        LET once == replayCustomer(Store, c, customers[c])
        IN  /\ replayCustomer(once, c, once.cu[c]) = once
            /\ \A o \in OpeningBalances :
                  LET r == recalculateCustomerBalance(Store, c, o)
                  IN  recalculateCustomerBalance(r, c, o) = r
            /\ (c \in last.replayed /\ last.op = "handleSave")
                  => once = Store
            /\ (c \in last.replayed /\ last.op = "editCustomer")
                  => recalculateCustomerBalance(
                        Store, c, customers[c].openingBalance) = Store

\* a sheet replay has just run over records of which a later-inserted one
\* is of an earlier day, and the customer holds supplies and payments
C7_Witness ==
    /\ last.op = "handleSave"
    /\ \E c \in last.replayed :
          /\ \E t, u \in TxOf(transactions, c) : t.id < u.id /\ u.date < t.date
          /\ customers[c].totalSupplied > 0
          /\ customers[c].totalPaid > 0

\* C8: each customer has at most one SUPPLY and at most one PAYMENT on each
\* day.
C8_OnePerDayAndKind ==
    \A t, u \in transactions :
        (t.customerId = u.customerId /\ t.date = u.date /\ t.type = u.type)
            => t.id = u.id

\* C9: a sheet save in which a store write fails ends in the error branch,
\* not in the completed state, and leaves the transactions, every
\* balanceAfter, every customer record and the transaction key as they were
\* before the save.
C9_FailedSaveRollsBack ==
    [][(Ran("handleSave") /\ last'.failAt # 0) =>
         /\ last'.result = "error"
         /\ transactions' = transactions
         /\ customers' = customers
         /\ nextTxId' = nextTxId
      ]_vars

\* a save that failed at the second customer after the first customer's
\* changed row had been written
C9_Witness ==
    /\ last.op = "handleSave" /\ last.result = "error"
    /\ last.failAt = 2
    /\ 1 \notin last.same

\* C10: a sheet save with a negative quantity or a negative payment in a
\* row ends in the error branch and inserts, updates and deletes nothing.
C10_NegativeInputRejected ==
    [][(Ran("handleSave") /\ last'.negative # {}) =>
         /\ last'.result = "error"
         /\ transactions' = transactions
         /\ customers' = customers
      ]_vars

\* C11: no stored transaction has amount 0 and no SUPPLY has quantity 0;
\* and after a completed sheet save whose row proposed no quantity (no
\* payment) for a customer, the customer has no SUPPLY (no PAYMENT) on the
\* day.
C11_NoZeroStub ==
    [][/\ \A t \in transactions' :
            t.amount # 0 /\ (t.type = SUPPLY => t.quantity # 0)
       /\ (Ran("handleSave") /\ last'.result = "completed") =>
            \A c \in DOMAIN proposed'.rows :
               /\ parseFloatOrZero(proposed'.rows[c].qty) = 0 =>
                     DayRecords(transactions', c, last'.day, SUPPLY) = {}
               /\ parseFloatOrZero(proposed'.rows[c].pay) = 0 =>
                     DayRecords(transactions', c, last'.day, PAYMENT) = {}
      ]_vars

\* C12: after an entry of the supply form or of the payment form, the
\* customer has one record of that kind on that day, not two, and every
\* record of the customer carries the balance of the replay in canonical
\* order.
C12_FormEntryIsReconciliation ==
    last.op \in {"addSupply", "addPayment"} =>
        /\ Cardinality(DayRecords(transactions, last.cust, last.day,
              IF last.op = "addSupply" THEN SUPPLY ELSE PAYMENT)) <= 1
        /\ Replayed(transactions, customers, last.cust)

\* the day a replay leaves in lastSupplyDate: the greatest day of the
\* customer's supplies, the creation day without a supply
LatestSupplyDay(tx, cu, c) ==
    LET S == {t \in TxOf(tx, c) : t.type = SUPPLY}
    IN  IF S = {} THEN cu[c].createdAt
        ELSE maxKey({t.date : t \in S})

\* the customer's derived fields are those of a full replay of its records
DerivedAgree(tx, cu, c) ==
    /\ cu[c].currentBalance = cu[c].openingBalance + SumSigned(TxOf(tx, c))
    /\ cu[c].totalSupplied = SumQuantity({t \in TxOf(tx, c) : t.type = SUPPLY})
    /\ cu[c].totalPaid = SumAmount({t \in TxOf(tx, c) : t.type = PAYMENT})
    /\ cu[c].lastSupplyDate = LatestSupplyDay(tx, cu, c)

\* C13: after an import, every imported customer's records carry the
\* balances of a full replay of the imported records and the customer's
\* currentBalance, totalSupplied, totalPaid and lastSupplyDate are those of
\* that replay, whatever the file held for them.
C13_ImportReplays ==
    last.op = "importData" =>
        \A c \in DOMAIN customers :
            /\ Replayed(transactions, customers, c)
            /\ DerivedAgree(transactions, customers, c)

\* C14: a delete of a customer that completes leaves neither the
\* customer's record nor any transaction with its customerId, and a delete
\* that fails leaves both as they were; either way every other customer's
\* record and transactions are as before.
C14_DeleteIsAtomic ==
    [][Ran("handleDelete") =>
        LET id == last'.cust
        IN  /\ \A b \in DOMAIN customers \ {id} :
                  /\ b \in DOMAIN customers'
                  /\ customers'[b] = customers[b]
                  /\ TxOf(transactions', b) = TxOf(transactions, b)
            /\ transactions' \subseteq transactions
            /\ DOMAIN customers' \subseteq DOMAIN customers
            /\ IF last'.result = "completed"
               THEN id \notin DOMAIN customers' /\ TxOf(transactions', id) = {}
               ELSE /\ id \in DOMAIN customers' /\ customers'[id] = customers[id]
                    /\ TxOf(transactions', id) = TxOf(transactions, id)
      ]_vars

\* a completed delete that took records with it and left the other
\* customer's records
C14_Witness ==
    /\ last.op = "handleDelete" /\ last.result = "completed"
    /\ transactions # {}
    /\ Cardinality(transactions) < nextTxId - 1
    /\ \A t \in transactions : t.customerId # last.cust

\* C15: every customer's lastSupplyDate is the greatest day of its SUPPLY
\* records, and the customer's creation day when it has none.
C15_LastSupplyDate ==
    \A c \in DOMAIN customers :
        customers[c].lastSupplyDate =
            LatestSupplyDay(transactions, customers, c)

\* the sheet save just run was of day d with the given quantity and payment
\* texts in the customer's row, at an effective rate of 160, and completed
ScenarioSave(d, qty, pay) ==
    /\ Ran("handleSave") /\ last'.result = "completed" /\ last'.day = d
    /\ proposed'.rows[1] = [qty |-> qty, pay |-> pay]
    /\ proposed'.rate + customers[1].supplyRate = 160

\* the ledger of the scenario: opening balance 0, one supply of day 1 and,
\* once paid, one payment of 600 of day 2, under whatever keys
ScenarioLedger(tx, cu, quantity, amount, bal1, paid, bal2) ==
    /\ cu[1].openingBalance = 0
    /\ Cardinality(tx) = IF paid THEN 2 ELSE 1
    /\ {[t EXCEPT !.id = 0] : t \in tx} =
           {[id |-> 0, customerId |-> 1, date |-> 1, type |-> SUPPLY,
             quantity |-> quantity, rate |-> 160, amount |-> amount,
             balanceAfter |-> bal1]}
           \cup (IF paid
                 THEN {[id |-> 0, customerId |-> 1, date |-> 2,
                        type |-> PAYMENT, quantity |-> 0, rate |-> 0,
                        amount |-> 600, balanceAfter |-> bal2]}
                 ELSE {})
    /\ cu[1].currentBalance = IF paid THEN bal2 ELSE bal1
    /\ cu[1].totalSupplied = quantity
    /\ cu[1].totalPaid = IF paid THEN 600 ELSE 0

\* C16: for a customer with opening balance 0 at an effective rate of 160,
\* the sheet of day 1 with quantity 10 stores amount 1600 and balanceAfter
\* 1600; the sheet of day 2 with payment 600 then stores balanceAfter 1000;
\* the sheet of day 1 with quantity 8 then leaves day 1 at amount 1280 and
\* balanceAfter 1280, day 2 at balanceAfter 680, currentBalance 680,
\* totalSupplied 8 and totalPaid 600.
C16_WorkedScenario ==
    [][/\ (/\ transactions = {} /\ customers[1].openingBalance = 0
           /\ ScenarioSave(1, "10", ""))
          => ScenarioLedger(transactions', customers', 10, 1600, 1600, FALSE, 0)
       /\ (/\ ScenarioLedger(transactions, customers, 10, 1600, 1600, FALSE, 0)
           /\ ScenarioSave(2, "", "600"))
          => ScenarioLedger(transactions', customers', 10, 1600, 1600, TRUE, 1000)
       /\ (/\ ScenarioLedger(transactions, customers, 10, 1600, 1600, TRUE, 1000)
           /\ ScenarioSave(1, "8", ""))
          => ScenarioLedger(transactions', customers', 8, 1280, 1280, TRUE, 680)
      ]_vars

\* the scenario has run to its end: the last save was the correction of
\* day 1 to quantity 8 and the ledger holds the two records
C16_Witness ==
    /\ last.op = "handleSave" /\ last.day = 1 /\ nOps = 3
    /\ proposed.rows[1].qty = "8"
    /\ \E t \in transactions : t.id = 1 /\ t.quantity = 8 /\ t.rate = 160
    /\ \E t \in transactions : t.type = PAYMENT /\ t.date = 2
    /\ ScenarioLedger(transactions, customers, 8, 1280, 1280, TRUE, 680)

\* the sheet as a single save that never fails would leave the store
SavedOnce(st, d, rate, entries) ==
    saveLoop([st |-> st, failed |-> FALSE, replayed |-> {}],
             idSeq(DOMAIN st.cu), 1, st.cu, d, rate, entries, 0).st

\* C17: when a save has ended in the catch branch and Save is pressed again
\* on the same sheet (same day, rows and rate) and completes, the stored
\* transactions with their balanceAfter, the customers' aggregates and the
\* key generator are exactly those of a single save, of the store the failed
\* save started from, that never failed.
C17_RetryIsSafe ==
    [][(Ran("handleSave") /\ proposed'.retried)
       => LET once == SavedOnce(proposed.from, last.day, proposed.rate,
                                proposed.rows)
          IN  /\ transactions' = once.tx
              /\ customers' = once.cu
              /\ nextTxId' = once.nid
              /\ farmRate' = proposed.rate
      ]_vars

\* a second press of Save that completed and rewrote both customers
C17_Witness ==
    /\ last.op = "handleSave" /\ proposed.retried
    /\ last.replayed = {1, 2}
    /\ \E t \in transactions : t.balanceAfter # 0

\* customer b's records and customer record are as they were
Untouched(b) ==
    /\ b \in DOMAIN customers'
    /\ customers'[b] = customers[b]
    /\ {t \in transactions' : t.customerId = b} =
           {t \in transactions : t.customerId = b}

\* C18: a save of the sheet leaves every customer whose row it did not
\* reconcile and replay exactly as it was, records with their balanceAfter
\* and customer record, and an edit of a customer (its opening balance
\* included) leaves every other customer exactly as it was, also when the
\* customers have records on the same day.
C18_CustomerIndependence ==
    [][/\ Ran("handleSave")
          => \A b \in DOMAIN customers \ last'.replayed : Untouched(b)
       /\ Ran("editCustomer")
          => \A b \in DOMAIN customers \ {last'.cust} : Untouched(b)
      ]_vars

\* a save that replayed customer 1 only, while customer 2 has a record on
\* the day of the sheet as customer 1 does
C18_Witness ==
    /\ last.op = "handleSave" /\ last.result = "completed"
    /\ last.replayed = {1}
    /\ \E t \in transactions : t.customerId = 1 /\ t.date = last.day
    /\ \E t \in transactions : t.customerId = 2 /\ t.date = last.day

\* the primary keys of a set of records
Ids(S) == {t.id : t \in S}

\* C19: after a completed save that reconciled customer c's row of day d
\* with proposed quantity q at the effective rate r = farm rate + supply
\* rate: if q > 0 the day has a SUPPLY record with quantity q, rate r and
\* amount q * r, under the key of the day's SUPPLY record when there was one
\* (no record is added) and under a new key otherwise; if q = 0 and the day
\* had a SUPPLY record, one has been deleted and none added.
C19_SupplyPostcondition ==
    [][(Ran("handleSave") /\ last'.result = "completed")
       => \A c \in last'.replayed :
            LET d == last'.day
                q == parseFloatOrZero(proposed'.rows[c].qty)
                r == farmRate' + customers[c].supplyRate
                oldS == DayRecords(transactions, c, d, SUPPLY)
                newS == DayRecords(transactions', c, d, SUPPLY)
            IN  /\ q > 0 =>
                      \E t \in newS :
                          /\ t.quantity = q /\ t.rate = r /\ t.amount = q * r
                          /\ IF oldS # {}
                             THEN t.id \in Ids(oldS) /\ Ids(newS) = Ids(oldS)
                             ELSE t.id \notin Ids(transactions) /\ newS = {t}
                /\ (q = 0 /\ oldS # {}) =>
                      /\ Ids(newS) \subseteq Ids(oldS)
                      /\ Cardinality(newS) = Cardinality(oldS) - 1
      ]_vars

\* a completed save that changed the quantity of the day's record in place:
\* one key was ever handed out and the record under it holds quantity 8
C19_Witness ==
    /\ last.op = "handleSave" /\ last.result = "completed"
    /\ last.replayed = {1} /\ nOps >= 2 /\ nextTxId = 2
    /\ proposed.rows[1].qty = "8"
    /\ \E t \in transactions :
          /\ t.id = 1 /\ t.type = SUPPLY /\ t.date = last.day
          /\ t.quantity = 8
          /\ t.amount = 8 * (farmRate + customers[1].supplyRate)

\* a record with its amount and balanceAfter blanked: every other field,
\* the key, the method and the notes included
Rest(t) == [t EXCEPT !.amount = 0, !.balanceAfter = 0]

\* C20: after a completed save that reconciled customer c's row of day d
\* with proposed payment p: if p > 0 the day has a PAYMENT record whose
\* amount is p itself, which is the day's former PAYMENT record with only
\* its amount and balanceAfter rewritten (key, paymentMethod and notes as
\* they were, no record added) when there was one and a record under a new
\* key otherwise; if p = 0 and the day had a PAYMENT record, one has been
\* deleted and none added.
C20_PaymentPostcondition ==
    [][(Ran("handleSave") /\ last'.result = "completed")
       => \A c \in last'.replayed :
            LET d == last'.day
                p == parseFloatOrZero(proposed'.rows[c].pay)
                oldP == DayRecords(transactions, c, d, PAYMENT)
                newP == DayRecords(transactions', c, d, PAYMENT)
            IN  /\ p > 0 =>
                      \E t \in newP :
                          /\ t.amount = p
                          /\ IF oldP # {}
                             THEN /\ \E o \in oldP : Rest(t) = Rest(o)
                                  /\ Ids(newP) = Ids(oldP)
                             ELSE t.id \notin Ids(transactions) /\ newP = {t}
                /\ (p = 0 /\ oldP # {}) =>
                      /\ Ids(newP) \subseteq Ids(oldP)
                      /\ Cardinality(newP) = Cardinality(oldP) - 1
      ]_vars

\* a completed save that raised to 600 the payment of 100 that the payment
\* form had recorded as a cheque with a note
C20_Witness ==
    /\ last.op = "handleSave" /\ last.result = "completed"
    /\ last.replayed = {1}
    /\ proposed.rows[1].pay = "600"
    /\ \E t \in transactions :
          /\ t.type = PAYMENT /\ t.date = last.day /\ t.amount = 600
          /\ "paymentMethod" \in DOMAIN t
          /\ t.paymentMethod = CHEQUE /\ t.notes = "advance"

\* C21: whatever order the store returns a customer's records in, the sort
\* of the replay yields one and the same array, the one the replay walks;
\* in it a record of an earlier day stands before every record of a later
\* day, whenever it was inserted, and of two records of the same day and
\* kind the one with the lower id stands first.
C21_ReplayOrder ==
    \A c \in DOMAIN customers :
        \A walked \in {sortTx(TxOf(transactions, c))} :
            \A a \in toArrayOrders(TxOf(transactions, c)) :
                \A sorted \in {arraySort(a, 1, <<>>)} :
                    /\ sorted = walked
                    /\ \A i, j \in DOMAIN sorted :
                          /\ sorted[i].date < sorted[j].date => i < j
                          /\ (/\ sorted[i].date = sorted[j].date
                              /\ sorted[i].type = sorted[j].type
                              /\ sorted[i].id < sorted[j].id) => i < j

\* a ledger with a record inserted later for an earlier day and two
\* records of one day and kind
C21_Witness ==
    /\ \E t, u \in transactions :
          t.customerId = u.customerId /\ t.id < u.id /\ t.date > u.date
    /\ \E t, u \in transactions :
          /\ t.customerId = u.customerId /\ t.id # u.id
          /\ t.date = u.date /\ t.type = u.type

\* C22: no step of a sheet save, an entry form, a customer edit or a
\* customer delete changes the customer, the day or the kind of a record
\* that is still stored under its id afterwards.  (An import empties the
\* tables and inserts the file's records, so it is not a step over
\* existing records.)
C22_IdentityFieldsFixed ==
    [][(nOps' = nOps + 1 /\ last'.op # "importData")
       => \A t \in transactions : \A u \in transactions' :
              t.id = u.id =>
                  /\ u.customerId = t.customerId
                  /\ u.date = t.date
                  /\ u.type = t.type
      ]_vars

\* a completed save whose replay rewrote a customer holding a record
\* inserted later for an earlier day
C22_Witness ==
    /\ last.op = "handleSave" /\ last.result = "completed"
    /\ \E c \in last.replayed : \E t, u \in TxOf(transactions, c) :
          t.id < u.id /\ t.date > u.date

\* a record with its balanceAfter blanked
Underived(t) == [t EXCEPT !.balanceAfter = 0]

\* a customer record with its four derived fields blanked
Given(c) == [c EXCEPT !.currentBalance = 0, !.totalSupplied = 0,
                      !.totalPaid = 0, !.lastSupplyDate = 0]

\* C23: in a completed save, the replay of a customer takes the records as
\* the reconciliation of the day left them and changes on them nothing but
\* balanceAfter (key, customer, day, kind, quantity, rate, amount and the
\* payment's method and notes stay), and on the customer record it changes
\* nothing but currentBalance, totalSupplied, totalPaid and lastSupplyDate
\* (openingBalance and supplyRate stay).
C23_ReplayWritesDerivedOnly ==
    [][(Ran("handleSave") /\ last'.result = "completed")
       => \A c \in last'.replayed :
            LET reconciled == reconcileDay(Store, c, customers[c], last'.day,
                                           proposed'.rate, proposed'.rows[c])
            IN  /\ {Underived(t) : t \in TxOf(transactions', c)} =
                      {Underived(t) : t \in TxOf(reconciled.tx, c)}
                /\ Cardinality(TxOf(transactions', c)) =
                      Cardinality(TxOf(reconciled.tx, c))
                /\ Given(customers'[c]) = Given(customers[c])
      ]_vars

\* a completed save whose replay rewrote the balanceAfter of a record of
\* another day than the sheet's, for a customer whose balance is not its
\* opening balance
C23_Witness ==
    /\ last.op = "handleSave" /\ last.result = "completed"
    /\ last.replayed = {1}
    /\ \E t \in transactions : t.date # last.day /\ t.balanceAfter # 0
    /\ customers[1].currentBalance # customers[1].openingBalance

\* the quantity, rate and amount of the day's SUPPLY records, by key
Priced(S) == {<<t.id, t.quantity, t.rate, t.amount>> : t \in S}

\* C24: a completed save that reconciles a row whose proposed quantity is
\* the stored quantity of the day's supply, greater than 0, and whose
\* proposed payment differs from the stored one, leaves the quantity, the
\* rate and the amount of the day's SUPPLY record as stored, whatever the
\* sheet's rate and the customer's supplyRate are.
C24_PaymentEditKeepsSupply ==
    [][(Ran("handleSave") /\ last'.result = "completed")
       => \A c \in last'.replayed :
            LET d == last'.day
                q == parseFloatOrZero(proposed'.rows[c].qty)
                p == parseFloatOrZero(proposed'.rows[c].pay)
            IN  (q > 0 /\ q = StoredQty(c, d) /\ p # StoredPay(c, d))
                => Priced(DayRecords(transactions', c, d, SUPPLY)) =
                   Priced(DayRecords(transactions, c, d, SUPPLY))
      ]_vars

\* the balanceAfter of a set of records, by key
Balances(S) == {<<t.id, t.balanceAfter>> : t \in S}

\* the four derived fields of a customer record
Aggregates(c) == <<c.currentBalance, c.totalSupplied, c.totalPaid,
                   c.lastSupplyDate>>

\* C25: a save whose rate field holds another rate than the stored farm
\* rate, with a row that proposes the stored quantity and the stored
\* payment of the day, leaves the rate and the amount of the day's SUPPLY
\* record, the balanceAfter of every record of the customer and the
\* customer's aggregates as stored.
C25_RateIsNotCompared ==
    [][(Ran("handleSave") /\ proposed'.rate # farmRate)
       => \A c \in last'.same :
            /\ Priced(DayRecords(transactions', c, last'.day, SUPPLY)) =
                  Priced(DayRecords(transactions, c, last'.day, SUPPLY))
            /\ Balances(TxOf(transactions', c)) =
                  Balances(TxOf(transactions, c))
            /\ Aggregates(customers'[c]) = Aggregates(customers[c])
      ]_vars

\* a save under a changed rate that re-submitted the quantity and the
\* payment of a day that has both: the supply still carries the rate it was
\* stored with
C25_Witness ==
    /\ last.op = "handleSave" /\ last.same = {1}
    /\ proposed.rate = farmRate
    /\ proposed.rows[1].qty # "" /\ proposed.rows[1].pay # ""
    /\ \E t \in DayRecords(transactions, 1, last.day, SUPPLY) :
          /\ t.rate # farmRate + customers[1].supplyRate
          /\ t.quantity = parseFloatOrZero(proposed.rows[1].qty)
    /\ DayRecords(transactions, 1, last.day, PAYMENT) # {}

\* C28: when a save of the sheet ends in the catch branch, at whichever
\* customer of the sheet it failed, every customer of the sheet, the ones
\* processed before the failing one included, has the records and the
\* customer record it had before the save.
C28_AllOrNothingAcrossCustomers ==
    [][(Ran("handleSave") /\ last'.result = "error")
       => \A c \in DOMAIN customers : Untouched(c)
      ]_vars

\* a save that failed at the second customer after the first customer's
\* row, which proposed a supply and a payment, had been reconciled and
\* replayed
C28_Witness ==
    /\ last.op = "handleSave" /\ last.result = "error"
    /\ last.failAt = 2
    /\ proposed.rows[1] = [qty |-> "1", pay |-> "600"]
    /\ ~(\E t \in proposed.from.tx :
            t.customerId = 1 /\ t.date = last.day /\ t.type = PAYMENT)
    /\ transactions = proposed.from.tx

\* C29: a save that ends in the catch branch has stored the farm rate of
\* the sheet's rate field, while the transactions, the customer records
\* and the transaction key are those from before the save.
C29_FarmRateOutsideTransaction ==
    [][(Ran("handleSave") /\ last'.result = "error")
       => /\ farmRate' = last'.value
          /\ transactions' = transactions
          /\ customers' = customers
          /\ nextTxId' = nextTxId
      ]_vars

\* a failed save that left its rate, another than the one stored before,
\* in the settings
C29_Witness ==
    /\ last.op = "handleSave" /\ last.result = "error"
    /\ farmRate = last.value
    /\ farmRate = DefaultFarmRate + 10
    /\ DOMAIN customers = {1, 2} /\ last.same # {1, 2}

\* the input row shows what the ledger tx holds for customer 1 on day d: the
\* quantity of the day's supply and the amount of the day's payment, or
\* nothing where there is none
Shows(inputs, tx, d) ==
    LET S == DayRecords(tx, 1, d, SUPPLY)
        P == DayRecords(tx, 1, d, PAYMENT)
    IN  /\ parseFloatOrZero(inputs.qty) =
              (IF S = {} THEN 0 ELSE FirstById(S).quantity)
        /\ parseFloatOrZero(inputs.pay) =
              (IF P = {} THEN 0 ELSE FirstById(P).amount)
        /\ inputs.qty = "" <=> S = {}
        /\ inputs.pay = "" <=> P = {}

\* C26: when a fetch of the sheet resolves, its result is put into the
\* input fields only if it is the fetch started last, which is the one of
\* the selected date, and then the fields show the stored entries of that
\* date; the result of any other fetch leaves the fields as they are.  So
\* once no fetch is in flight, and nothing was typed since, the fields show
\* the stored entries of the selected date.
C26_StaleFetchDiscarded ==
    [][/\ \A f \in view.fetches :
            (/\ view'.fetches = view.fetches \ {f}
             /\ view'.event \in {"fetchApplied", "fetchDiscarded"})
            => IF f.id = view.fetchCounter
               THEN /\ f.date = view.date
                    /\ Shows(view'.inputs, transactions, view.date)
               ELSE view'.inputs = view.inputs
       /\ (/\ view'.fetches = {} /\ view'.fetchCounter > 0
           /\ ~view'.typed /\ ~view'.completed)
          => Shows(view'.inputs, transactions', view'.date)
      ]_vars

\* the date was changed twice, back to the day that holds a supply; the
\* last fetch resolved first and the two earlier ones after it, and the
\* fields show the stored quantity
C26_Witness ==
    /\ view.event = "fetchDiscarded" /\ view.fetches = {}
    /\ view.fetchCounter = 3 /\ view.date = 1
    /\ ~view.typed
    /\ view.inputs.qty = "1"
    /\ \E t \in transactions : t.date = 1 /\ t.type = SUPPLY /\ t.quantity = 1

\* C27: whenever a save is started, the text of the quantity field and the
\* text of the payment field that it will reconcile for the selected date
\* were loaded for that date or typed while that date was selected.
C27_SaveUsesOwnDayValues ==
    [][(view.save.pc = "idle" /\ view'.save.pc = "settings")
       => /\ view.qtyDay = view'.save.date
          /\ view.payDay = view'.save.date
      ]_vars

\* C30: a save that was started, the loading flag set, always gets to the
\* point where the flag is cleared, whether its ledger transaction
\* committed or aborted; no click starts a save while the flag is set; and
\* the completed state is entered only at the end of a ledger transaction
\* that committed, never at the end of one that aborted.
C30_SaveAlwaysEnds ==
    /\ view.loading ~> ~view.loading
    /\ [][(view'.event = "handleSaveClick" /\ nOps' = nOps + 1)
          => ~view.loading /\ view.save.pc = "idle"]_vars
    /\ [][(~view.completed /\ view'.completed)
          => /\ view.save.pc = "ledger"
             /\ last'.op = "handleSave" /\ last'.result = "completed"
             /\ last'.failAt = 0]_vars
    /\ [][(view.save.pc = "ledger" /\ view'.save.pc = "idle"
                                   /\ last'.failAt # 0)
          => ~view'.completed /\ transactions' = transactions]_vars

\* a save whose ledger transaction aborted has ended: the flag is cleared
\* and the sheet is not in the completed state
C30_Witness ==
    /\ view.event = "handleSaveLedger"
    /\ last.op = "handleSave" /\ last.result = "error" /\ last.failAt = 1
    /\ ~view.loading /\ ~view.completed
    /\ view.save.pc = "idle"

====
